---- MODULE Spec2Model ----
(***************************************************************************)
(* Loan application lifecycle and fraud evaluation of the loan management  *)
(* system: loans/services.py (submit_loan, LoanManagementService),         *)
(* fraud/services.py (FraudDetectionService, AuditService) and the models  *)
(* they act on (loans/models.py, fraud/models.py, users/models.py).        *)
(*                                                                         *)
(* The store (Customer, LoanApplication and FraudFlag tables) is the       *)
(* state.  Every service call is one action; the outcome of the call (the  *)
(* exception raised or the value returned) is recorded in `result`.        *)
(* Time is counted in hours.                                               *)
(***************************************************************************)
EXTENDS Integers, Sequences, FiniteSets, TLC

VARIABLES
    flagged_for_fraud, \* Customer.flagged_for_fraud of every customer
    loans,          \* LoanApplication table: sequence of rows, id = index
    fraud_flags,    \* FraudFlag table: sequence of rows, id = index
    now,            \* timezone.now(), in hours
    FRAUD,          \* fraud.constants.FRAUD, the verdict string of this build
    result,         \* outcome of the last call
    requests        \* the calls in progress, one per worker of the service

vars == <<flagged_for_fraud, loans, fraud_flags, now, FRAUD, result, requests>>

----------------------------------------------------------------------------
(* Bounds *)

MaxLoans == 1       \* rows the LoanApplication table may hold
MaxNow == 25        \* last hour the clock reaches
MaxFlags == 1       \* rows the FraudFlag table may hold

\* the clock advances by a day or by a day and an hour
TickSteps == {24, 25}

----------------------------------------------------------------------------
(* Values *)

PENDING == "PENDING"
APPROVED == "APPROVED"
REJECTED == "REJECTED"
FLAGGED == "FLAGGED"
Status == {PENDING, APPROVED, REJECTED, FLAGGED}

\* members of LoanApplication.Purpose the callers use
Purpose == {"PERSONAL", "BUSINESS"}

\* members of FraudFlag.Reason
Reason == {"SUSPICIOUS_ACTIVITY", "INCOMPLETE_KYC", "INCONSISTENT_INFORMATION",
           "HIGH_RISK_PROFILE", "UNUSUAL_TRANSACTION", "INACTIVE_DEBIT_CARD",
           "DIRECT_DEBIT_FAILURE", "OTHER"}

\* Python's None
None == "None"

\* fraud.constants, the verdict strings of run_fraud_checks.  The module is
\* not among the sources: the fraudulent verdict is the string the test
\* suite expects of run_fraud_checks or the string submit_loan compares it
\* with, fixed for a run; the clean verdict is neither.
FraudStrings == {"fraudulent", "fraudlent"}
CLEAN == "clean"

\* exception classes
LoanApplicationError == "LoanApplicationError"
FraudDetectionError == "FraudDetectionError"
ValueError == "ValueError"
AttributeError == "AttributeError"
NoError == ""

MAX_LOAN_AMOUNT == 5000000

\* amounts a caller passes: the validated minimum, an amount above the
\* high-risk ceiling, an amount above the limit
Amounts == {1000, 1500000, 6000000}

\* the (amount, purpose) pairs submit_loan is called with
SubmitInputs == {<<1000, "PERSONAL">>, <<1500000, "BUSINESS">>,
                 <<6000000, "PERSONAL">>}

----------------------------------------------------------------------------
(* The Customer table.  No operation of the services writes a customer's   *)
(* identity fields, so they are a fixed table; flagged_for_fraud is the    *)
(* variable above.  Names and e-mail addresses are sequences of characters *)
(* (tokens); customers 6..16 only populate the table, customer 17 shares a *)
(* last name with customer 5.                                              *)

Email(local, domain) == local \o <<"@">> \o domain

BackgroundIds == 6..16

CustomerRow(id) ==
    CASE id = 1 -> [first_name |-> <<"Bob">>, last_name |-> <<"Smith">>,
                    email |-> Email(<<"b">>, <<"a">>), phone_number |-> 1,
                    date_of_birth |-> [year |-> 1985, day |-> 1]]
      [] id = 2 -> [first_name |-> <<"Ada">>, last_name |-> <<"Young">>,
                    email |-> Email(<<"y">>, <<"b">>), phone_number |-> 2,
                    date_of_birth |-> [year |-> 2001, day |-> 2]]
      [] id = 3 -> [first_name |-> <<"Flagged">>, last_name |-> <<"User">>,
                    email |-> Email(<<"f">>, <<"c">>), phone_number |-> 3,
                    date_of_birth |-> [year |-> 1990, day |-> 3]]
      [] id = 4 -> [first_name |-> <<"Dom">>, last_name |-> <<"Main">>,
                    email |-> Email(<<"d">>, <<"s">>), phone_number |-> 4,
                    date_of_birth |-> [year |-> 1986, day |-> 4]]
      [] id = 5 -> [first_name |-> <<"John">>, last_name |-> <<"Doe">>,
                    email |-> Email(<<"j">>, <<"e">>), phone_number |-> 5,
                    date_of_birth |-> [year |-> 1987, day |-> 5]]
      [] id \in BackgroundIds ->
                   [first_name |-> <<"F", ToString(id)>>,
                    last_name |-> <<"L", ToString(id)>>,
                    email |-> Email(<<"u", ToString(id)>>, <<"s">>), phone_number |-> id,
                    date_of_birth |-> [year |-> 1960 + id, day |-> id]]
      [] OTHER  -> [first_name |-> <<"Jane">>, last_name |-> <<"Doe">>,
                    email |-> Email(<<"k">>, <<"g">>), phone_number |-> id,
                    date_of_birth |-> [year |-> 1988, day |-> 6]]

CustomerIds == 1..17

Customers == [c \in CustomerIds |-> CustomerRow(c)]

\* the customers created with flagged_for_fraud set
FlaggedAtStart == {3}

\* a BaseUser that is no Customer (a LoanAdmin)
AdminUser == 0

\* the users that call submit_loan
Submitters == {AdminUser, 1, 2, 3, 4, 5}

----------------------------------------------------------------------------
(* Rows and the ORM *)

\* LoanApplication(user=..., amount_requested=..., purpose=...): an unsaved
\* instance has no primary key (id 0) and the default status
NewLoan(user, amount, purpose) ==
    [id |-> 0, user |-> user, amount_requested |-> amount, purpose |-> purpose,
     status |-> PENDING, date_applied |-> 0]

\* Model.save() with date_applied stamped on every save (auto_now in place
\* of auto_now_add)
Save_restamped(tbl, loan, t) ==
    IF loan.id = 0
    THEN LET row == [loan EXCEPT !.id = Len(tbl) + 1, !.date_applied = t]
         IN [loans |-> Append(tbl, row), loan |-> row]
    ELSE LET row == [loan EXCEPT !.date_applied = t]
         IN [loans |-> [tbl EXCEPT ![loan.id] = row], loan |-> row]

\* Model.save(): INSERT when the instance has no primary key (date_applied is
\* auto_now_add), UPDATE of every field of the row otherwise.  Returns the
\* table and the instance after the call.  (date_updated, which no code
\* reads, is left out of the rows.)
Save(tbl, loan, t) ==
    IF loan.id = 0
    THEN LET row == [loan EXCEPT !.id = Len(tbl) + 1, !.date_applied = t]
         IN [loans |-> Append(tbl, row), loan |-> row]
    ELSE [loans |-> [tbl EXCEPT ![loan.id] = loan], loan |-> loan]

\* LoanApplication.flag_as_fraud: the FraudFlag table after the call, and the
\* exception it raises
flag_as_fraud(flags_tbl, loan, reason, comments) ==
    IF reason = None \/ reason = ""
    THEN [fraud_flags |-> flags_tbl, err |-> ValueError]
    ELSE [fraud_flags |-> Append(flags_tbl,
                              [loan_application |-> loan.id, reason |-> reason,
                               comments |-> comments, resolved |-> FALSE]),
          err |-> NoError]

\* LoanApplication.is_high_risk
is_high_risk(loan) ==
    loan.amount_requested > 1000000 /\ Customers[loan.user].date_of_birth.year < 2000

----------------------------------------------------------------------------
(* loans/services.py: check_eligibility *)

\* RecentLoans counting only the applications still PENDING
RecentLoans_pending(tbl, user, t) ==
    {i \in 1..Len(tbl) : /\ tbl[i].user = user
                         /\ tbl[i].status = PENDING
                         /\ tbl[i].date_applied >= t - 24}

\* the customer's applications with date_applied >= t - 24 hours
RecentLoans(tbl, user, t) ==
    {i \in 1..Len(tbl) : tbl[i].user = user /\ tbl[i].date_applied >= t - 24}

\* check_eligibility without the test of flagged_for_fraud
check_eligibility_unflagged(flagged, tbl, user, t) ==
    IF RecentLoans(tbl, user, t) # {} THEN "cooldown" ELSE ""

\* check_eligibility without the cool-down
check_eligibility_uncooled(flagged, tbl, user, t) ==
    IF flagged[user] THEN "flagged" ELSE ""

\* check_eligibility that also turns away a customer who has an application
\* with status FLAGGED
check_eligibility_flagged_apps(flagged, tbl, user, t) ==
    IF flagged[user] THEN "flagged"
    ELSE IF \E i \in 1..Len(tbl) : tbl[i].user = user /\ tbl[i].status = FLAGGED
    THEN "flagged"
    ELSE IF RecentLoans(tbl, user, t) # {} THEN "cooldown"
    ELSE ""

\* what check_eligibility raises its LoanApplicationError for, "" when it
\* returns True
check_eligibility(flagged, tbl, user, t) ==
    IF flagged[user] THEN "flagged"
    ELSE IF RecentLoans(tbl, user, t) # {} THEN "cooldown"
    ELSE ""

----------------------------------------------------------------------------
(* fraud/services.py: the rules of FraudDetectionService *)

\* email.split("@")[-1]: what follows the last "@" (the whole string if none)
RECURSIVE SplitLast(_)
SplitLast(e) ==
    IF \E i \in 1..Len(e) : e[i] = "@"
    THEN LET i == CHOOSE k \in 1..Len(e) : e[k] = "@"
         IN SplitLast(SubSeq(e, i + 1, Len(e)))
    ELSE e

\* str.endswith, the email__endswith lookup
EndsWith(e, suffix) ==
    /\ Len(suffix) <= Len(e)
    /\ SubSeq(e, Len(e) - Len(suffix) + 1, Len(e)) = suffix

\* for every customer, Customer.objects.filter(email__endswith=domain).count()
EmailDomainCount ==
    [user \in CustomerIds |->
        LET domain == SplitLast(Customers[user].email)
        IN Cardinality({c \in CustomerIds : EndsWith(Customers[c].email, domain)})]

suspicious_email_domain(user) == EmailDomainCount[user] > 10

too_many_applications(tbl, user, t) ==
    Cardinality(RecentLoans(tbl, user, t)) > 3

\* a text field counts in the query when it is not empty; every customer has
\* a date of birth and a phone number (registration requires both)
Truthy(x) == x # <<>>

\* for every customer, Customer.objects.filter(query).exclude(id=user.id).exists()
HasDuplicate ==
    [user \in CustomerIds |->
        LET u == Customers[user]
            Match(o) ==
                \/ Truthy(u.email) /\ o.email = u.email
                \/ Truthy(u.first_name) /\ o.first_name = u.first_name
                \/ Truthy(u.last_name) /\ o.last_name = u.last_name
                \/ o.date_of_birth = u.date_of_birth
                \/ o.phone_number = u.phone_number
        IN \E c \in CustomerIds : c # user /\ Match(Customers[c])]

duplicate_account(user) == HasDuplicate[user]

_amount_exceeds_limit(loan) == loan.amount_requested > MAX_LOAN_AMOUNT

\* is_fraudulent on the amount alone
is_fraudulent_amount(loan) == _amount_exceeds_limit(loan)

\* is_fraudulent without the amount limit
is_fraudulent_high_risk(loan) == is_high_risk(loan)

is_fraudulent(loan) == _amount_exceeds_limit(loan) /\ is_high_risk(loan)

\* the reasons run_fraud_checks collects, in the order it appends them; the
\* too-many-applications rule is kept apart because its reason is no member
\* of FraudFlag.Reason
rule_flags(loan) ==
    (IF suspicious_email_domain(loan.user)
     THEN <<"SUSPICIOUS_ACTIVITY">> ELSE <<>>)
    \o (IF _amount_exceeds_limit(loan) THEN <<"HIGH_RISK_PROFILE">> ELSE <<>>)
    \o (IF duplicate_account(loan.user)
        THEN <<"SUSPICIOUS_ACTIVITY", "INCONSISTENT_INFORMATION">> ELSE <<>>)

----------------------------------------------------------------------------
(* fraud/services.py: flag_loan, run_fraud_checks, AuditService *)

\* how the alert of one call goes: there is no LoanAdmin row, the mail is
\* sent, send_mail raises (caught by _send_email_alert), or the settings
\* define no ADMIN_EMAILS (AuditService.alert raises)
AlertModes == {"no_admins", "sent", "mail_fails", "no_setting"}

\* the modes that tell the outcomes of a call apart: all of them when the
\* call gets as far as the alert (seen on the outcome with the mail sent),
\* one otherwise
ModesOf(outcome) == IF outcome.alert = "sent" THEN AlertModes ELSE {"sent"}

\* entries of a flags list: a {reason, comments} dict, a FraudFlag.Reason
\* member, or anything else
DictEntry(reason, comments) == [kind |-> "dict", reason |-> reason, comments |-> comments]
ReasonEntry(reason) == [kind |-> "Reason", reason |-> reason, comments |-> ""]
OtherEntry == [kind |-> "other", reason |-> None, comments |-> ""]

RECURSIVE ReasonEntries(_)
ReasonEntries(rs) ==
    IF rs = <<>> THEN <<>> ELSE <<ReasonEntry(Head(rs))>> \o ReasonEntries(Tail(rs))

\* The outcome of a service call: the tables and the instance after it, the
\* exception raised (and, for submit_loan, what for), the verdict and the
\* reasons of run_fraud_checks, the id of the application submit_loan
\* returns, and what reached the audit sink.
Outcome(tbl, flags_tbl, loan, err) ==
    [loans |-> tbl, fraud_flags |-> flags_tbl, loan |-> loan, err |-> err,
     why |-> "", status |-> None, flags |-> <<>>, returned |-> 0,
     logged |-> FALSE, alert |-> "none"]

\* the loop of flag_loan over the entries: one FraudFlag per entry, until an
\* entry raises
RECURSIVE create_flags(_, _, _)
create_flags(flags_tbl, loan, entries) ==
    IF entries = <<>> THEN [fraud_flags |-> flags_tbl, err |-> NoError]
    ELSE IF Head(entries).kind \notin {"dict", "Reason"}
    THEN [fraud_flags |-> flags_tbl, err |-> ValueError]
    ELSE IF Head(entries).reason \in {None, ""}
    THEN flag_as_fraud(flags_tbl, loan, Head(entries).reason, Head(entries).comments)
    ELSE create_flags(
            flag_as_fraud(flags_tbl, loan, Head(entries).reason,
                          Head(entries).comments).fraud_flags,
            loan, Tail(entries))

\* AuditService.alert as called by flag_loan: the exception it raises
alert(mode) == IF mode = "no_setting" THEN AttributeError ELSE NoError

\* what became of the alert: "none" (not called), "sent", "failed" (send_mail
\* raised and was logged) or "raised"
AlertOutcome(mode) ==
    CASE mode = "no_admins"  -> "none"
      [] mode = "sent"       -> "sent"
      [] mode = "mail_fails" -> "failed"
      [] OTHER               -> "raised"

\* the end of flag_loan: log_activity, then the alert if there are admins
flag_loan_audit(saved, made, mode) ==
    [Outcome(saved.loans, made.fraud_flags, saved.loan,
             IF mode = "no_admins" THEN NoError ELSE alert(mode))
     EXCEPT !.logged = TRUE, !.alert = AlertOutcome(mode)]

\* flag_loan once the status is saved (`saved`) and the entries are gone
\* through (`made`)
flag_loan_entries(saved, made, mode) ==
    IF made.err # NoError
    THEN Outcome(saved.loans, made.fraud_flags, saved.loan, made.err)
    ELSE flag_loan_audit(saved, made, mode)

\* flag_loan once the status is saved
flag_loan_saved(saved, flags_tbl, flags, mode) ==
    flag_loan_entries(saved, create_flags(flags_tbl, saved.loan, flags), mode)

\* flag_loan without the test for an empty flags list
flag_loan_unvalidated(tbl, flags_tbl, loan, flags, t, mode) ==
    IF loan.status = FLAGGED
    THEN Outcome(tbl, flags_tbl, loan, FraudDetectionError)
    ELSE IF ~is_fraudulent(loan)
    THEN Outcome(tbl, flags_tbl, loan, FraudDetectionError)
    ELSE flag_loan_saved(Save(tbl, [loan EXCEPT !.status = FLAGGED], t),
                         flags_tbl, flags, mode)

\* FraudDetectionService.flag_loan
flag_loan(tbl, flags_tbl, loan, flags, t, mode) ==
    IF flags = <<>> THEN Outcome(tbl, flags_tbl, loan, ValueError)
    ELSE IF loan.status = FLAGGED
    THEN Outcome(tbl, flags_tbl, loan, FraudDetectionError)
    ELSE IF ~is_fraudulent(loan)
    THEN Outcome(tbl, flags_tbl, loan, FraudDetectionError)
    ELSE flag_loan_saved(Save(tbl, [loan EXCEPT !.status = FLAGGED], t),
                         flags_tbl, flags, mode)

\* the flags list run_fraud_checks builds before it flags: the exception
\* raised on the way, and the list.  FraudFlag.Reason has no member
\* TOO_MANY_APPLICATIONS, so the first rule firing ends the call
collect_flags(tbl, loan, t) ==
    IF too_many_applications(tbl, loan.user, t)
    THEN [err |-> AttributeError, flags |-> <<>>]
    ELSE [err |-> NoError, flags |-> rule_flags(loan)]

\* what run_fraud_checks returns after flag_loan (nothing if it raised)
fraud_verdict(r, flags, fraud) ==
    IF r.err # NoError THEN r ELSE [r EXCEPT !.status = fraud, !.flags = flags]

\* FraudDetectionService.run_fraud_checks
run_fraud_checks(tbl, flags_tbl, loan, t, mode, fraud) ==
    IF too_many_applications(tbl, loan.user, t)
    THEN \* FraudFlag.Reason has no member TOO_MANY_APPLICATIONS
         Outcome(tbl, flags_tbl, loan, AttributeError)
    ELSE IF rule_flags(loan) # <<>>
    THEN fraud_verdict(flag_loan(tbl, flags_tbl, loan,
                                 ReasonEntries(rule_flags(loan)), t, mode),
                       rule_flags(loan), fraud)
    ELSE [Outcome(tbl, flags_tbl, loan, NoError) EXCEPT !.status = CLEAN]

----------------------------------------------------------------------------
(* loans/services.py: submit_loan and LoanManagementService *)

\* an exception leaves submit_loan, which runs in transaction.atomic: the
\* tables are as they were before the call; what reached the audit sink stays
rolled_back(tbl, flags_tbl, r, err, why, reasons) ==
    [r EXCEPT !.loans = tbl, !.fraud_flags = flags_tbl, !.err = err,
              !.why = why, !.flags = reasons]

\* the last save of submit_loan and the application it returns
submit_saved(saved, r) ==
    [r EXCEPT !.loans = saved.loans, !.loan = saved.loan,
              !.returned = saved.loan.id, !.flags = <<>>]

\* submit_checked returning the candidate without the last save
submit_checked_unsaved(tbl, flags_tbl, r, t) ==
    IF r.err # NoError
    THEN rolled_back(tbl, flags_tbl, r, r.err, "fraud_checks", <<>>)
    ELSE IF r.status = "fraudlent"
    THEN rolled_back(tbl, flags_tbl, r, LoanApplicationError, "fraud", r.flags)
    ELSE r

\* submit_loan after run_fraud_checks (r)
submit_checked(tbl, flags_tbl, r, t) ==
    IF r.err # NoError
    THEN rolled_back(tbl, flags_tbl, r, r.err, "fraud_checks", <<>>)
    ELSE IF r.status = "fraudlent"
    THEN rolled_back(tbl, flags_tbl, r, LoanApplicationError, "fraud", r.flags)
    ELSE submit_saved(Save(r.loans, r.loan, t), r)

\* submit_loan: in the outcome, `flags` are the reasons named in the message
\* of the exception
submit_loan(flagged, tbl, flags_tbl, user, amount, purpose, t, mode, fraud) ==
    IF user \notin CustomerIds
    THEN [Outcome(tbl, flags_tbl, NewLoan(user, amount, purpose),
                  LoanApplicationError) EXCEPT !.why = "not_customer"]
    ELSE IF check_eligibility(flagged, tbl, user, t) # ""
    THEN [Outcome(tbl, flags_tbl, NewLoan(user, amount, purpose),
                  LoanApplicationError)
          EXCEPT !.why = check_eligibility(flagged, tbl, user, t)]
    ELSE submit_checked(tbl, flags_tbl,
                        run_fraud_checks(tbl, flags_tbl,
                                         NewLoan(user, amount, purpose),
                                         t, mode, fraud),
                        t)

\* approve_loan without the fraud check
approve_loan_unchecked(tbl, flags_tbl, loan, t) ==
    IF loan.status # PENDING
    THEN Outcome(tbl, flags_tbl, loan, LoanApplicationError)
    ELSE Outcome(Save(tbl, [loan EXCEPT !.status = APPROVED], t).loans,
                 flags_tbl, [loan EXCEPT !.status = APPROVED], NoError)

\* approve_loan refusing only the decided applications, as reject_loan does
approve_loan_decided(tbl, flags_tbl, loan, t) ==
    IF loan.status = APPROVED
    THEN Outcome(tbl, flags_tbl, loan, LoanApplicationError)
    ELSE IF loan.status = REJECTED
    THEN Outcome(tbl, flags_tbl, loan, LoanApplicationError)
    ELSE IF is_fraudulent(loan)
    THEN Outcome(tbl, flags_tbl, loan, FraudDetectionError)
    ELSE Outcome(Save(tbl, [loan EXCEPT !.status = APPROVED], t).loans,
                 flags_tbl, [loan EXCEPT !.status = APPROVED], NoError)

\* LoanManagementService.approve_loan on a loaded instance
approve_loan(tbl, flags_tbl, loan, t) ==
    IF loan.status # PENDING
    THEN Outcome(tbl, flags_tbl, loan, LoanApplicationError)
    ELSE IF loan.status = FLAGGED
    THEN Outcome(tbl, flags_tbl, loan, LoanApplicationError)
    ELSE IF is_fraudulent(loan)
    THEN Outcome(tbl, flags_tbl, loan, FraudDetectionError)
    ELSE Outcome(Save(tbl, [loan EXCEPT !.status = APPROVED], t).loans,
                 flags_tbl, [loan EXCEPT !.status = APPROVED], NoError)

\* reject_loan refusing only the approved applications
reject_loan_approved(tbl, flags_tbl, loan, t) ==
    IF loan.status = APPROVED
    THEN Outcome(tbl, flags_tbl, loan, LoanApplicationError)
    ELSE Outcome(Save(tbl, [loan EXCEPT !.status = REJECTED], t).loans,
                 flags_tbl, [loan EXCEPT !.status = REJECTED], NoError)

\* reject_loan with the fraud check of approve_loan
reject_loan_checked(tbl, flags_tbl, loan, t) ==
    IF loan.status = APPROVED
    THEN Outcome(tbl, flags_tbl, loan, LoanApplicationError)
    ELSE IF loan.status = REJECTED
    THEN Outcome(tbl, flags_tbl, loan, LoanApplicationError)
    ELSE IF is_fraudulent(loan)
    THEN Outcome(tbl, flags_tbl, loan, FraudDetectionError)
    ELSE Outcome(Save(tbl, [loan EXCEPT !.status = REJECTED], t).loans,
                 flags_tbl, [loan EXCEPT !.status = REJECTED], NoError)

\* LoanManagementService.reject_loan on a loaded instance
reject_loan(tbl, flags_tbl, loan, t) ==
    IF loan.status = APPROVED
    THEN Outcome(tbl, flags_tbl, loan, LoanApplicationError)
    ELSE IF loan.status = REJECTED
    THEN Outcome(tbl, flags_tbl, loan, LoanApplicationError)
    ELSE Outcome(Save(tbl, [loan EXCEPT !.status = REJECTED], t).loans,
                 flags_tbl, [loan EXCEPT !.status = REJECTED], NoError)

\* LoanManagementService.flag_loan without the test of the status
admin_flag_loan_any(tbl, flags_tbl, loan, flags, t, mode) ==
    flag_loan(tbl, flags_tbl, loan, flags, t, mode)

\* LoanManagementService.flag_loan on a loaded instance
admin_flag_loan(tbl, flags_tbl, loan, flags, t, mode) ==
    IF loan.status # PENDING
    THEN Outcome(tbl, flags_tbl, loan, LoanApplicationError)
    ELSE flag_loan(tbl, flags_tbl, loan, flags, t, mode)

----------------------------------------------------------------------------
(* The state machine *)

\* what is kept of a call: the operation, the application acted on or
\* returned (0: none), its status before the call, the exception raised and,
\* for submit_loan, what it was raised for
NoResult == [op |-> "none", loan |-> 0, was |-> None, err |-> NoError, why |-> ""]

\* the workers that serve requests at the same time
Workers == {1, 2}

\* a worker between two requests.  A request in progress holds the operation,
\* the instance it built or loaded, the flags passed, the number of rows the
\* cool-down query of check_eligibility returned, and in the end the
\* exception raised
Idle ==
    [pc |-> "idle", op |-> "none", loan |-> NewLoan(0, 0, ""), flags |-> <<>>,
     recent |-> 0, err |-> NoError]

\* rows put into the table by other means than submit_loan (the factories of
\* the test suite): PENDING applications of any amount.  Every other status
\* is the work of the operations, so that the table starts in no state the
\* services could not have left it in.
SeedUsers == {1, 2}

fake_loan(user, amount, status) ==
    [id |-> 1, user |-> user, amount_requested |-> amount, purpose |-> "BUSINESS",
     status |-> status, date_applied |-> 0]

Seeds == {<<>>} \cup {<<fake_loan(u, a, PENDING)>> : u \in SeedUsers, a \in Amounts}

\* flags lists an administrator passes: none, valid {reason, comments}
\* entries, an entry without a reason, an entry that is no dict
FlagLists ==
    {<<>>,
     <<DictEntry("OTHER", "")>>,
     <<DictEntry("SUSPICIOUS_ACTIVITY", "c"), DictEntry("OTHER", "")>>,
     <<DictEntry("OTHER", ""), DictEntry(None, "")>>,
     <<OtherEntry>>}

Init ==
    /\ flagged_for_fraud = [c \in CustomerIds |-> c \in FlaggedAtStart]
    /\ loans \in Seeds
    /\ fraud_flags = <<>>
    /\ now = 0
    /\ FRAUD \in FraudStrings
    /\ result = NoResult
    /\ requests = [w \in Workers |-> Idle]

\* the step of a call that runs from start to end with no other call in
\* between, with outcome r; the table grows up to MaxLoans rows
Step(op, target, r) ==
    /\ Len(r.loans) <= Len(loans) \/ Len(r.loans) <= MaxLoans
    /\ Len(r.fraud_flags) <= MaxFlags
    /\ loans' = r.loans
    /\ fraud_flags' = r.fraud_flags
    /\ result' = [op |-> op, loan |-> IF op = "submit" THEN r.returned ELSE target,
                  was |-> IF op = "submit" THEN None ELSE loans[target].status,
                  err |-> r.err, why |-> r.why]
    /\ UNCHANGED <<flagged_for_fraud, now, FRAUD, requests>>

Submit(user, amount, purpose, mode) ==
    Step("submit", 0,
         submit_loan(flagged_for_fraud, loans, fraud_flags, user, amount, purpose,
                     now, mode, FRAUD))

Approve(id) ==
    Step("approve", id, approve_loan(loans, fraud_flags, loans[id], now))

Reject(id) ==
    Step("reject", id, reject_loan(loans, fraud_flags, loans[id], now))

Flag(id, flags, mode) ==
    Step("flag", id, admin_flag_loan(loans, fraud_flags, loans[id], flags, now, mode))

RunFraudChecks(id, mode) ==
    Step("run_fraud_checks", id,
         run_fraud_checks(loans, fraud_flags, loans[id], now, mode, FRAUD))

Tick(dt) ==
    /\ now + dt <= MaxNow
    /\ now' = now + dt
    /\ result' = [NoResult EXCEPT !.op = "tick"]
    /\ UNCHANGED <<flagged_for_fraud, loans, fraud_flags, FRAUD, requests>>

Next ==
    \/ \E u \in Submitters, in \in SubmitInputs :
          \E m \in ModesOf(submit_loan(flagged_for_fraud, loans, fraud_flags, u,
                                       in[1], in[2], now, "sent", FRAUD)) :
             Submit(u, in[1], in[2], m)
    \/ \E id \in 1..Len(loans) : Approve(id)
    \/ \E id \in 1..Len(loans) : Reject(id)
    \/ \E id \in 1..Len(loans), fl \in FlagLists :
          \E m \in ModesOf(admin_flag_loan(loans, fraud_flags, loans[id], fl,
                                           now, "sent")) :
             Flag(id, fl, m)
    \/ \E id \in 1..Len(loans) :
          \E m \in ModesOf(run_fraud_checks(loans, fraud_flags, loans[id], now,
                                            "sent", FRAUD)) :
             RunFraudChecks(id, m)
    \/ \E dt \in TickSteps : Tick(dt)

Spec == Init /\ [][Next]_vars

\* a customer with a history: three or four applications of customer 1 made
\* within the same day, as the test of too_many_applications creates them
HistoryRows(n) == [i \in 1..n |-> [fake_loan(1, 1000, PENDING) EXCEPT !.id = i]]

HistorySeeds == {HistoryRows(3), HistoryRows(4)}

InitHistory ==
    /\ flagged_for_fraud = [c \in CustomerIds |-> c \in FlaggedAtStart]
    /\ loans \in HistorySeeds
    /\ fraud_flags = <<>>
    /\ now = 0
    /\ FRAUD \in FraudStrings
    /\ result = NoResult
    /\ requests = [w \in Workers |-> Idle]

\* the same calls on the tables of a customer with a history
SpecHistory == InitHistory /\ [][Next]_vars

----------------------------------------------------------------------------
(* Properties *)

\* the customers that call submit_loan
Callers == Submitters \cap CustomerIds

\* the reasons of the FraudFlag rows of application id, in the order created
FlagReasons(flags_tbl, id) ==
    LET F[i \in 0..Len(flags_tbl)] ==
            IF i = 0 THEN <<>>
            ELSE IF flags_tbl[i].loan_application = id
            THEN Append(F[i - 1], flags_tbl[i].reason)
            ELSE F[i - 1]
    IN F[Len(flags_tbl)]

\* C1: for a customer flagged for fraud, submit_loan raises the eligibility
\* error (LoanApplicationError, for the flag) for every amount and purpose, and
\* the LoanApplication and FraudFlag tables are as before the call.
C1_FlaggedCustomerRefused ==
    \A u \in Callers, a \in Amounts, p \in Purpose, m \in AlertModes :
        flagged_for_fraud[u] =>
            LET r == submit_loan(flagged_for_fraud, loans, fraud_flags, u, a, p,
                                 now, m, FRAUD)
            IN /\ r.err = LoanApplicationError
               /\ r.why = "flagged"
               /\ r.loans = loans
               /\ r.fraud_flags = fraud_flags

\* a flagged customer has called submit_loan and was refused
C1_Witness ==
    /\ result.op = "submit"
    /\ result.why = "flagged"
    /\ result.err = LoanApplicationError

\* C2: for an unflagged customer with an application of any status applied
\* for no more than 24 hours before the call, submit_loan raises the
\* eligibility error (LoanApplicationError, for the cool-down) and the tables
\* are as before the call.
C2_CooldownRefused ==
    \A u \in Callers, a \in Amounts, p \in Purpose, m \in AlertModes :
        (/\ ~flagged_for_fraud[u]
         /\ \E i \in 1..Len(loans) :
                /\ loans[i].user = u
                /\ loans[i].status \in Status
                /\ now - loans[i].date_applied <= 24)
        => LET r == submit_loan(flagged_for_fraud, loans, fraud_flags, u, a, p,
                                now, m, FRAUD)
           IN /\ r.err = LoanApplicationError
              /\ r.why = "cooldown"
              /\ r.loans = loans
              /\ r.fraud_flags = fraud_flags

\* a customer whose only application is decided (not PENDING) and exactly 24
\* hours old has called submit_loan and was refused for the cool-down
C2_Witness ==
    /\ result.op = "submit"
    /\ result.why = "cooldown"
    /\ now = 24
    /\ Len(loans) = 1
    /\ loans[1].status # PENDING
    /\ loans[1].date_applied = 0

\* the customer may submit: not flagged, no application in the last 24 hours
Eligible(u) ==
    /\ ~flagged_for_fraud[u]
    /\ ~\E i \in 1..Len(loans) :
            loans[i].user = u /\ now - loans[i].date_applied <= 24

\* a rule of the fraud evaluation fires on the candidate: the suspicious
\* e-mail domain, the number of applications in 24 hours, the amount limit,
\* the duplicate account, or the high-risk composite
RuleFires(loan) ==
    \/ suspicious_email_domain(loan.user)
    \/ too_many_applications(loans, loan.user, now)
    \/ _amount_exceeds_limit(loan)
    \/ duplicate_account(loan.user)
    \/ is_high_risk(loan)

\* C3: for an eligible customer and a candidate on which no fraud rule
\* fires, submit_loan adds exactly one row to the LoanApplication table, owned
\* by the customer, with the amount and purpose asked for and status PENDING,
\* returns that row, and leaves the FraudFlag table as it was.
C3_CleanSubmitPersistsPending ==
    \A u \in Callers, a \in Amounts, p \in Purpose, m \in AlertModes :
        (Eligible(u) /\ ~RuleFires(NewLoan(u, a, p)))
        => LET r == submit_loan(flagged_for_fraud, loans, fraud_flags, u, a, p,
                                now, m, FRAUD)
           IN /\ r.err = NoError
              /\ Len(r.loans) = Len(loans) + 1
              /\ SubSeq(r.loans, 1, Len(loans)) = loans
              /\ r.returned = Len(r.loans)
              /\ r.loans[r.returned].user = u
              /\ r.loans[r.returned].amount_requested = a
              /\ r.loans[r.returned].purpose = p
              /\ r.loans[r.returned].status = PENDING
              /\ r.fraud_flags = fraud_flags

\* submit_loan has returned an application on which no rule fires: it is the
\* last row of the table and PENDING
C3_Witness ==
    /\ result.op = "submit"
    /\ result.err = NoError
    /\ result.loan = Len(loans)
    /\ loans[result.loan].status = PENDING
    /\ ~RuleFires(loans[result.loan])

\* C4: whenever the fraud evaluation of the candidate of an eligible customer
\* gives reasons (the verdict is FRAUD), submit_loan returns no application:
\* it raises the fraud-detected error (FraudDetectionError), which carries
\* the reasons.
C4_FraudVerdictRaisesWithReasons ==
    \A u \in Callers, a \in Amounts, p \in Purpose, m \in AlertModes :
        (Eligible(u) /\ rule_flags(NewLoan(u, a, p)) # <<>>)
        => LET r == submit_loan(flagged_for_fraud, loans, fraud_flags, u, a, p,
                                now, m, FRAUD)
           IN /\ r.returned = 0
              /\ r.err = FraudDetectionError
              /\ r.flags = rule_flags(NewLoan(u, a, p))

\* C5: after submit_loan by an eligible customer whose candidate triggers at
\* least one rule, the call has failed and the LoanApplication table holds
\* the candidate as a new row with status FLAGGED, with one FraudFlag per
\* reason.
C5_FraudSubmitPersistsFlagged ==
    \A u \in Callers, a \in Amounts, p \in Purpose, m \in AlertModes :
        (Eligible(u) /\ rule_flags(NewLoan(u, a, p)) # <<>>)
        => LET r == submit_loan(flagged_for_fraud, loans, fraud_flags, u, a, p,
                                now, m, FRAUD)
           IN /\ r.err # NoError
              /\ Len(r.loans) = Len(loans) + 1
              /\ r.loans[Len(r.loans)].user = u
              /\ r.loans[Len(r.loans)].amount_requested = a
              /\ r.loans[Len(r.loans)].status = FLAGGED
              /\ FlagReasons(r.fraud_flags, Len(r.loans)) = rule_flags(NewLoan(u, a, p))

\* C6: approve_loan on an application that is APPROVED, REJECTED or FLAGGED
\* raises the invalid-state error (LoanApplicationError) and leaves the
\* LoanApplication rows (the status with them) and the FraudFlag rows as they
\* were.
C6_ApproveOnlyFromPending ==
    \A id \in 1..Len(loans) :
        loans[id].status \in {APPROVED, REJECTED, FLAGGED}
        => LET r == approve_loan(loans, fraud_flags, loans[id], now)
           IN /\ r.err = LoanApplicationError
              /\ r.loans = loans
              /\ r.fraud_flags = fraud_flags

\* approve_loan was called on a FLAGGED application that has FraudFlags, and
\* raised
C6_Witness ==
    /\ result.op = "approve"
    /\ result.was = FLAGGED
    /\ result.err = LoanApplicationError
    /\ loans[result.loan].status = FLAGGED
    /\ FlagReasons(fraud_flags, result.loan) # <<>>

\* C7: approve_loan on a PENDING application with amount_requested above
\* 1,000,000 whose owner was born before 2000 raises the fraud-detected error
\* (FraudDetectionError) and the application stays PENDING.
C7_ApproveRefusesHighRisk ==
    (/\ result.op = "approve"
     /\ result.was = PENDING
     /\ loans[result.loan].amount_requested > 1000000
     /\ Customers[loans[result.loan].user].date_of_birth.year < 2000)
    => /\ result.err = FraudDetectionError
       /\ loans[result.loan].status = PENDING

\* the high-risk signal run_fraud_checks collects for an application
HighRiskSignal(loan) ==
    \E i \in 1..Len(rule_flags(loan)) : rule_flags(loan)[i] = "HIGH_RISK_PROFILE"

\* C8: on every application the high-risk signal of run_fraud_checks and the
\* pre-check of approve_loan (is_fraudulent) agree, and both are true when
\* amount_requested is above 1,000,000 and the owner was born before 2000.
C8_HighRiskCallSitesAgree ==
    \A id \in 1..Len(loans) :
        /\ HighRiskSignal(loans[id]) <=> is_fraudulent(loans[id])
        /\ (/\ loans[id].amount_requested > 1000000
            /\ Customers[loans[id].user].date_of_birth.year < 2000)
           => (HighRiskSignal(loans[id]) /\ is_fraudulent(loans[id]))

\* C9: approve_loan on a PENDING application for which the high-risk
\* composite is false raises nothing, saves the application as APPROVED and
\* leaves every other row and the FraudFlag table as they were.
C9_ApproveNotHighRisk ==
    \A id \in 1..Len(loans) :
        (loans[id].status = PENDING /\ ~is_high_risk(loans[id]))
        => LET r == approve_loan(loans, fraud_flags, loans[id], now)
           IN /\ r.err = NoError
              /\ r.loans = [loans EXCEPT ![id].status = APPROVED]
              /\ r.fraud_flags = fraud_flags

\* approve_loan was called on a PENDING application that is not high-risk,
\* and it is APPROVED
C9_Witness ==
    /\ result.op = "approve"
    /\ result.was = PENDING
    /\ result.err = NoError
    /\ ~is_high_risk(loans[result.loan])
    /\ loans[result.loan].status = APPROVED
    /\ fraud_flags = <<>>

\* C10: reject_loan on a PENDING application, whatever its amount and owner,
\* raises nothing, saves the application as REJECTED and leaves every other
\* row and the FraudFlag table as they were.
C10_RejectPending ==
    \A id \in 1..Len(loans) :
        loans[id].status = PENDING
        => LET r == reject_loan(loans, fraud_flags, loans[id], now)
           IN /\ r.err = NoError
              /\ r.loans = [loans EXCEPT ![id].status = REJECTED]
              /\ r.fraud_flags = fraud_flags

\* reject_loan was called on a PENDING application that approve_loan would
\* refuse for fraud, and it is REJECTED
C10_Witness ==
    /\ result.op = "reject"
    /\ result.was = PENDING
    /\ result.err = NoError
    /\ is_fraudulent(loans[result.loan])
    /\ loans[result.loan].status = REJECTED
    /\ fraud_flags = <<>>

\* C11: reject_loan on an application that is already REJECTED raises the
\* invalid-state error (LoanApplicationError) and changes nothing: the
\* LoanApplication rows (the status with them) and the FraudFlag rows are as
\* they were, nothing is logged and no alert is sent.
C11_RejectTwiceRefused ==
    \A id \in 1..Len(loans) :
        loans[id].status = REJECTED
        => LET r == reject_loan(loans, fraud_flags, loans[id], now)
           IN /\ r.err = LoanApplicationError
              /\ r.loans = loans
              /\ r.fraud_flags = fraud_flags
              /\ ~r.logged
              /\ r.alert = "none"

\* reject_loan was called on a REJECTED application and raised
C11_Witness ==
    /\ result.op = "reject"
    /\ result.was = REJECTED
    /\ result.err = LoanApplicationError
    /\ loans[result.loan].status = REJECTED

\* C12: FLAGGED is terminal: no step changes the status of an application
\* that is FLAGGED.
C12_FlaggedIsTerminal ==
    [][\A id \in 1..Len(loans) :
          loans[id].status = FLAGGED => loans'[id].status = FLAGGED]_vars

\* C13: REJECTED is terminal: no step changes the status of an application
\* that is REJECTED, whatever its amount and owner.
C13_RejectedIsTerminal ==
    [][\A id \in 1..Len(loans) :
          loans[id].status = REJECTED => loans'[id].status = REJECTED]_vars

\* C14: APPROVED is terminal: no step changes the status of an application
\* that is APPROVED (no operation writes the amount of an application or the
\* date of birth of its owner).
C14_ApprovedIsTerminal ==
    [][\A id \in 1..Len(loans) :
          loans[id].status = APPROVED => loans'[id].status = APPROVED]_vars

\* run_fraud_checks was called on an APPROVED application on which a rule
\* fires; flag_loan raised and the application is still APPROVED
C14_Witness ==
    /\ result.op = "run_fraud_checks"
    /\ result.was = APPROVED
    /\ result.err = FraudDetectionError
    /\ rule_flags(loans[result.loan]) # <<>>
    /\ loans[result.loan].status = APPROVED

\* C15: LoanManagementService.flag_loan with an empty flags list raises the
\* validation error (ValueError) on an application in any status, and leaves
\* the LoanApplication and FraudFlag rows as they were.
C15_EmptyFlagsValidationError ==
    \A id \in 1..Len(loans), m \in AlertModes :
        LET r == admin_flag_loan(loans, fraud_flags, loans[id], <<>>, now, m)
        IN /\ r.err = ValueError
           /\ r.loans = loans
           /\ r.fraud_flags = fraud_flags

\* C15 as amended: with an empty flags list LoanManagementService.flag_loan
\* always raises, the validation error (ValueError) on a PENDING application
\* and the invalid-state error (LoanApplicationError) on any other, and leaves
\* the LoanApplication and FraudFlag rows as they were.
C15_EmptyFlagsRefused ==
    \A id \in 1..Len(loans), m \in AlertModes :
        LET r == admin_flag_loan(loans, fraud_flags, loans[id], <<>>, now, m)
        IN /\ r.err = IF loans[id].status = PENDING
                      THEN ValueError ELSE LoanApplicationError
           /\ r.loans = loans
           /\ r.fraud_flags = fraud_flags

\* LoanManagementService.flag_loan was called with an empty list on a PENDING
\* application that meets the fraud criteria: of the lists passed only the
\* empty one makes flag_loan raise ValueError before the status is written
C15_Witness ==
    /\ result.op = "flag"
    /\ result.was = PENDING
    /\ result.err = ValueError
    /\ is_fraudulent(loans[result.loan])
    /\ loans[result.loan].status = PENDING
    /\ fraud_flags = <<>>

\* the flags lists made of {reason, comments} entries whose reason is a
\* member of FraudFlag.Reason
ValidFlagLists ==
    {fl \in FlagLists :
        /\ fl # <<>>
        /\ \A i \in 1..Len(fl) : fl[i].kind = "dict" /\ fl[i].reason \in Reason}

\* the reasons of the entries of a flags list
EntryReasons(fl) == [i \in 1..Len(fl) |-> fl[i].reason]

\* C16: LoanManagementService.flag_loan on any PENDING application with a
\* list of n valid {reason, comments} entries raises nothing (the alert
\* permitting), saves the application as FLAGGED and creates exactly n
\* FraudFlags for it, with the reasons of the entries.
C16_FlagPendingSucceeds ==
    \A id \in 1..Len(loans), fl \in ValidFlagLists,
       m \in AlertModes \ {"no_setting"} :
        loans[id].status = PENDING
        => LET r == admin_flag_loan(loans, fraud_flags, loans[id], fl, now, m)
           IN /\ r.err = NoError
              /\ r.loans = [loans EXCEPT ![id].status = FLAGGED]
              /\ Len(r.fraud_flags) = Len(fraud_flags) + Len(fl)
              /\ FlagReasons(r.fraud_flags, id)
                    = FlagReasons(fraud_flags, id) \o EntryReasons(fl)

\* C17: LoanManagementService.flag_loan on an application that is APPROVED,
\* REJECTED or FLAGGED raises the invalid-state error (LoanApplicationError)
\* for every flags list, and leaves the LoanApplication and FraudFlag rows as
\* they were.
C17_FlagOnlyFromPending ==
    \A id \in 1..Len(loans), fl \in FlagLists, m \in AlertModes :
        loans[id].status \in {APPROVED, REJECTED, FLAGGED}
        => LET r == admin_flag_loan(loans, fraud_flags, loans[id], fl, now, m)
           IN /\ r.err = LoanApplicationError
              /\ r.loans = loans
              /\ r.fraud_flags = fraud_flags

\* LoanManagementService.flag_loan was called on a REJECTED application that
\* meets the fraud criteria, and raised
C17_Witness ==
    /\ result.op = "flag"
    /\ result.was = REJECTED
    /\ result.err = LoanApplicationError
    /\ is_fraudulent(loans[result.loan])
    /\ loans[result.loan].status = REJECTED
    /\ fraud_flags = <<>>

\* C18: the status and the FraudFlags are written as one unit: a call of
\* LoanManagementService.flag_loan or of submit_loan that raises leaves the
\* LoanApplication and FraudFlag tables as they were.
C18_FlaggingIsAtomic ==
    [][(result'.op \in {"flag", "submit"} /\ result'.err # NoError)
       => (loans' = loans /\ fraud_flags' = fraud_flags)]_vars

\* C19: a stored application has a FraudFlag if and only if it has been
\* FLAGGED: an application that is FLAGGED has one, FraudFlag rows are never
\* removed or changed, and an application gets its first FraudFlag only in a
\* step that leaves it FLAGGED.
C19_FlagsIffEverFlagged ==
    /\ [](\A id \in 1..Len(loans) :
             loans[id].status = FLAGGED => FlagReasons(fraud_flags, id) # <<>>)
    /\ [][/\ Len(fraud_flags') >= Len(fraud_flags)
          /\ SubSeq(fraud_flags', 1, Len(fraud_flags)) = fraud_flags
          /\ \A id \in 1..Len(loans') :
                (/\ FlagReasons(fraud_flags', id) # <<>>
                 /\ FlagReasons(fraud_flags, id) = <<>>)
                => loans'[id].status = FLAGGED]_vars

\* C20: run_fraud_checks is read-only: on every stored application it leaves
\* the LoanApplication and FraudFlag tables as they are and sends no alert.
C20_RunFraudChecksReadOnly ==
    \A id \in 1..Len(loans), m \in AlertModes :
        LET r == run_fraud_checks(loans, fraud_flags, loans[id], now, m, FRAUD)
        IN /\ r.loans = loans
           /\ r.fraud_flags = fraud_flags
           /\ r.alert = "none"

----------------------------------------------------------------------------
(* The fraud evaluation, the audit sink and the frame of the operations *)

\* one of the four rules run_fraud_checks goes through fires on the
\* application
AnyRuleFires(tbl, loan, t) ==
    \/ too_many_applications(tbl, loan.user, t)
    \/ suspicious_email_domain(loan.user)
    \/ _amount_exceeds_limit(loan)
    \/ duplicate_account(loan.user)

\* the alert modes in which AuditService.alert returns
AlertReturns == {m \in AlertModes : alert(m) = NoError}

\* C21: run_fraud_checks never raises because some other condition is not
\* met: on every stored application it returns FRAUD with reasons when at
\* least one rule fires (an amount above 5,000,000 alone is enough, whatever
\* the birth year of the owner), and CLEAN with no reasons otherwise.
C21_VerdictIffRuleFires ==
    \A id \in 1..Len(loans), m \in AlertReturns :
        LET r == run_fraud_checks(loans, fraud_flags, loans[id], now, m, FRAUD)
        IN /\ r.err = NoError
           /\ IF AnyRuleFires(loans, loans[id], now)
              THEN r.status = FRAUD /\ r.flags # <<>>
              ELSE r.status = CLEAN /\ r.flags = <<>>

\* C23: a failure of the audit sink never fails the operation that
\* triggered it: whether the mail is sent, send_mail raises or the
\* recipients are not configured, LoanManagementService.flag_loan and
\* submit_loan end as they do when the alert goes through, with the same
\* LoanApplication and FraudFlag rows.
C23_AlertFailureNeverFails ==
    /\ \A id \in 1..Len(loans), fl \in FlagLists, m \in AlertModes :
          LET r == admin_flag_loan(loans, fraud_flags, loans[id], fl, now, m)
              sent == admin_flag_loan(loans, fraud_flags, loans[id], fl, now, "sent")
          IN /\ r.err = sent.err
             /\ r.loans = sent.loans
             /\ r.fraud_flags = sent.fraud_flags
    /\ \A u \in Callers, a \in Amounts, p \in Purpose, m \in AlertModes :
          LET r == submit_loan(flagged_for_fraud, loans, fraud_flags, u, a, p,
                               now, m, FRAUD)
              sent == submit_loan(flagged_for_fraud, loans, fraud_flags, u, a, p,
                                  now, "sent", FRAUD)
          IN /\ r.err = sent.err
             /\ r.loans = sent.loans
             /\ r.fraud_flags = sent.fraud_flags

\* C26: no operation changes the owner, the amount, the purpose or
\* date_applied of a stored application, and no application is removed.
C26_ApplicationFieldsFrozen ==
    [][/\ Len(loans') >= Len(loans)
       /\ \A id \in 1..Len(loans) :
             /\ loans'[id].user = loans[id].user
             /\ loans'[id].amount_requested = loans[id].amount_requested
             /\ loans'[id].purpose = loans[id].purpose
             /\ loans'[id].date_applied = loans[id].date_applied]_vars

\* approve_loan has saved an application a day or more after it was applied
\* for
C26_Witness ==
    /\ result.op = "approve"
    /\ result.err = NoError
    /\ loans[result.loan].status = APPROVED
    /\ loans[result.loan].date_applied = 0
    /\ now >= 24

\* C27: no operation changes flagged_for_fraud of any customer, and a
\* customer with a FLAGGED application passes check_eligibility once more
\* than 24 hours have gone by since the customer's last application.
C27_FlaggingSparesCustomer ==
    /\ [][flagged_for_fraud' = flagged_for_fraud]_vars
    /\ [](\A id \in 1..Len(loans) :
             (/\ loans[id].status = FLAGGED
              /\ \A i \in 1..Len(loans) :
                    loans[i].user = loans[id].user
                    => now - loans[i].date_applied > 24)
             => check_eligibility(flagged_for_fraud, loans, loans[id].user, now)
                   = "")

\* the only application of a customer was FLAGGED, 25 hours have gone by,
\* and the customer passes check_eligibility
C27_Witness ==
    /\ result.op = "tick"
    /\ \E id \in 1..Len(loans) :
          /\ loans[id].status = FLAGGED
          /\ FlagReasons(fraud_flags, id) # <<>>
          /\ now - loans[id].date_applied > 24
          /\ ~flagged_for_fraud[loans[id].user]
          /\ check_eligibility(flagged_for_fraud, loans, loans[id].user, now) = ""

\* C28: as long as no application asks for more than 5,000,000, no
\* application is FLAGGED and there is no FraudFlag.
C28_NoFlagBelowLimit ==
    (\A id \in 1..Len(loans) : loans[id].amount_requested <= MAX_LOAN_AMOUNT)
    => /\ \A id \in 1..Len(loans) : loans[id].status # FLAGGED
       /\ fraud_flags = <<>>

\* LoanManagementService.flag_loan was called with a valid flags list on a
\* PENDING application of 1,500,000 of a customer born before 2000, and
\* raised
C28_Witness ==
    /\ result.op = "flag"
    /\ result.was = PENDING
    /\ result.err = FraudDetectionError
    /\ \A id \in 1..Len(loans) : loans[id].amount_requested <= MAX_LOAN_AMOUNT
    /\ is_high_risk(loans[result.loan])
    /\ loans[result.loan].status = PENDING

----------------------------------------------------------------------------
(* The too-many-applications rule *)

\* the candidates of every customer and the stored applications
Candidates ==
    {NewLoan(u, a, p) : u \in Callers, a \in Amounts, p \in Purpose}
    \cup {loans[id] : id \in 1..Len(loans)}

\* C22: run_fraud_checks builds its reason list without stopping at the
\* first rule that fires, in the order too-many-applications, suspicious
\* e-mail domain, amount above the limit, duplicate account: the first three
\* give one code each, the duplicate account gives SUSPICIOUS_ACTIVITY then
\* INCONSISTENT_INFORMATION.
C22_ReasonsInRuleOrder ==
    \A c \in Candidates :
        LET built == collect_flags(loans, c, now)
            tail == (IF suspicious_email_domain(c.user)
                     THEN <<"SUSPICIOUS_ACTIVITY">> ELSE <<>>)
                    \o (IF _amount_exceeds_limit(c)
                        THEN <<"HIGH_RISK_PROFILE">> ELSE <<>>)
                    \o (IF duplicate_account(c.user)
                        THEN <<"SUSPICIOUS_ACTIVITY", "INCONSISTENT_INFORMATION">>
                        ELSE <<>>)
        IN /\ built.err = NoError
           /\ IF too_many_applications(loans, c.user, now)
              THEN \E code \in Reason : built.flags = <<code>> \o tail
              ELSE built.flags = tail

\* the applications of the customer made in the last 24 hours, the
\* candidate counted also when it is not yet saved
CountWithCandidate(c) ==
    Cardinality(RecentLoans(loans, c.user, now)) + (IF c.id = 0 THEN 1 ELSE 0)

\* C25: too_many_applications fires exactly when the customer's
\* applications of the last 24 hours, the candidate counted also when it is
\* not yet saved, are more than 3: three stored applications and an unsaved
\* candidate fire it, four stored applications fire it.
C25_TooManyCountsCandidate ==
    \A c \in Candidates :
        too_many_applications(loans, c.user, now) <=> CountWithCandidate(c) > 3

\* C29: a submit_loan that passes check_eligibility evaluates its candidate
\* while the customer has no stored application of the last 24 hours, so
\* too_many_applications does not fire in it.
C29_GateKeepsTooManySilent ==
    \A u \in Callers, a \in Amounts, p \in Purpose, m \in AlertModes :
        LET r == submit_loan(flagged_for_fraud, loans, fraud_flags, u, a, p,
                             now, m, FRAUD)
        IN r.why \notin {"not_customer", "flagged", "cooldown"}
           => /\ RecentLoans(loans, u, now) = {}
              /\ ~too_many_applications(loans, u, now)
              /\ collect_flags(loans, NewLoan(u, a, p), now).err = NoError

\* a day after customer 1 made several applications, a submit_loan has
\* passed check_eligibility and the fraud evaluation gave its verdict
C29_Witness ==
    /\ result.op = "submit"
    /\ result.why = "fraud"
    /\ now >= 25
    /\ Len(loans) >= 3
    /\ \A id \in 1..Len(loans) : loans[id].user = 1 /\ loans[id].date_applied = 0

----------------------------------------------------------------------------
(* Requests served at the same time.  No service takes a lock or re-reads
   the row it is given: a request reads (the cool-down query, the row the
   view loads), other requests may commit, and then it writes. *)

\* what the request of worker w leaves behind when it ends with outcome r:
\* the tables it committed, and the exception it raised; inst is the
\* instance the request keeps
Commit(w, r, inst) ==
    /\ loans' = r.loans
    /\ fraud_flags' = r.fraud_flags
    /\ requests' = [requests EXCEPT ![w].pc = "done", ![w].loan = inst,
                                    ![w].err = r.err]
    /\ UNCHANGED <<flagged_for_fraud, now, FRAUD, result>>

\* submit_loan up to the candidate: check_eligibility has run its queries;
\* `why` is what it raised for
BeginSubmit(w, user, amount, purpose, why) ==
    /\ requests[w].pc = "idle"
    /\ requests' = [requests EXCEPT ![w] =
          [pc |-> IF why = "" THEN "checked" ELSE "done",
           op |-> "submit",
           loan |-> NewLoan(user, amount, purpose),
           flags |-> <<>>,
           recent |-> Cardinality(RecentLoans(loans, user, now)),
           err |-> IF why = "" THEN NoError ELSE LoanApplicationError]]
    /\ UNCHANGED <<flagged_for_fraud, loans, fraud_flags, now, FRAUD, result>>

\* the rest of submit_loan: run_fraud_checks and the save, on the tables as
\* they are by now
FinishSubmit(w, r) ==
    /\ requests[w].pc = "checked"
    /\ Commit(w, r, r.loan)

\* the view of approve, reject or flag loads the application
Load(w, op, id, flags) ==
    /\ requests[w].pc = "idle"
    /\ requests' = [requests EXCEPT ![w] =
          [pc |-> "loaded", op |-> op, loan |-> loans[id], flags |-> flags,
           recent |-> 0, err |-> NoError]]
    /\ UNCHANGED <<flagged_for_fraud, loans, fraud_flags, now, FRAUD, result>>

\* the service call on the instance the view loaded
FinishApprove(w) ==
    /\ requests[w].pc = "loaded"
    /\ requests[w].op = "approve"
    /\ Commit(w, approve_loan(loans, fraud_flags, requests[w].loan, now),
              requests[w].loan)

FinishReject(w) ==
    /\ requests[w].pc = "loaded"
    /\ requests[w].op = "reject"
    /\ Commit(w, reject_loan(loans, fraud_flags, requests[w].loan, now),
              requests[w].loan)

FinishFlag(w, mode) ==
    /\ requests[w].pc = "loaded"
    /\ requests[w].op = "flag"
    /\ Commit(w, admin_flag_loan(loans, fraud_flags, requests[w].loan,
                                 requests[w].flags, now, mode),
              requests[w].loan)

NextConcurrent ==
    \/ \E w \in Workers, u \in Callers, in \in SubmitInputs :
          BeginSubmit(w, u, in[1], in[2],
                      check_eligibility(flagged_for_fraud, loans, u, now))
    \/ \E w \in Workers, m \in AlertModes :
          FinishSubmit(w, submit_checked(loans, fraud_flags,
                                         run_fraud_checks(loans, fraud_flags,
                                                          requests[w].loan, now,
                                                          m, FRAUD),
                                         now))
    \/ \E w \in Workers, id \in 1..Len(loans) :
          Load(w, "approve", id, <<>>) \/ Load(w, "reject", id, <<>>)
    \/ \E w \in Workers, id \in 1..Len(loans), fl \in ValidFlagLists :
          Load(w, "flag", id, fl)
    \/ \E w \in Workers : FinishApprove(w)
    \/ \E w \in Workers : FinishReject(w)
    \/ \E w \in Workers, m \in AlertModes : FinishFlag(w, m)

\* two requests served at the same time on the tables of Init
SpecConcurrent == Init /\ [][NextConcurrent]_vars

\* worker w has ended a submit_loan that returned an application
Submitted(w) ==
    /\ requests[w].pc = "done"
    /\ requests[w].op = "submit"
    /\ requests[w].err = NoError

\* C24: two submit_loan calls of one customer served at the same time can
\* both pass the cool-down check before either saves: two applications of
\* one customer less than 24 hours apart come about, and only that way --
\* through two calls whose cool-down query each found no application.
C24_RaceBeatsCooldown ==
    \A i \in 1..Len(loans), j \in 1..Len(loans) :
        (/\ i < j
         /\ loans[i].user = loans[j].user
         /\ loans[j].date_applied - loans[i].date_applied < 24)
        => \E w1 \in Workers, w2 \in Workers :
              /\ w1 # w2
              /\ Submitted(w1) /\ requests[w1].loan.id = i
              /\ Submitted(w2) /\ requests[w2].loan.id = j
              /\ requests[w1].recent = 0
              /\ requests[w2].recent = 0

\* two submit_loan calls of one eligible customer have both returned, and
\* the table holds their two applications, made at the same hour
C24_Witness ==
    /\ \A w \in Workers : Submitted(w)
    /\ requests[1].loan.user = requests[2].loan.user
    /\ requests[1].loan.id # requests[2].loan.id
    /\ \A w \in Workers :
          /\ requests[w].loan.id \in 1..Len(loans)
          /\ loans[requests[w].loan.id].user = requests[w].loan.user
          /\ loans[requests[w].loan.id].date_applied = now

\* worker w has ended a call of operation op on application id, which was
\* PENDING when the view loaded it
Decided(w, op, id) ==
    /\ requests[w].pc = "done"
    /\ requests[w].op = op
    /\ requests[w].loan.id = id
    /\ requests[w].loan.status = PENDING

\* C30: when approve_loan and reject_loan (or flag_loan) are called at the
\* same time on one PENDING application, each on an instance loaded before
\* the other saved, at most one of them returns, and the stored status is
\* the one that call set.
C30_OneDecisionWins ==
    \A w1 \in Workers, w2 \in Workers, id \in 1..Len(loans) :
        \A op \in {"reject", "flag"} :
            (w1 # w2 /\ Decided(w1, "approve", id) /\ Decided(w2, op, id))
            => /\ ~(requests[w1].err = NoError /\ requests[w2].err = NoError)
               /\ requests[w1].err = NoError => loans[id].status = APPROVED
               /\ requests[w2].err = NoError
                     => loans[id].status = (IF op = "reject" THEN REJECTED
                                                            ELSE FLAGGED)

====
